---- MODULE Spec2Model ----
(***************************************************************************)
(* Model of BishengRAGTool (bisheng_langchain/rag/bisheng_rag_tool.py):    *)
(* construction, file2knowledge, retrieval_and_rerank, run and arun.       *)
(* The ensemble retriever, the stores, the loader and the qa chain are     *)
(* collaborators; their results are inputs chosen from bounded sets.       *)
(***************************************************************************)
EXTENDS Integers, Sequences, FiniteSets, Bags, TLC

(* ---------------------------- bounds ---------------------------------- *)
NumStrategies == 2      \* retrievers listed in the configuration
MaxChunkLen   == 1      \* len(page_content) in 0..MaxChunkLen
MaxRank       == 1      \* longest ranked list one strategy returns
MaxDocs       == 3      \* longest merged list handed to the selector
MaxContent    == 2      \* generate.max_content in 0..MaxContent
MaxTicks      == 1      \* steps of another task counted per call

VARIABLES
    args,         \* arguments of the latest constructor call
    constructed,  \* an instance exists
    initLog,      \* construction steps executed by the latest constructor call
    params,       \* self.params
    knowledge,    \* files held by the collection
    op,           \* latest operation called
    fault,        \* exception raised to the caller by the latest operation
    pc,           \* "idle", or "synth" while the qa_chain call is in flight
    question,     \* query of the latest run/arun
    results,      \* per-strategy outcomes of the latest retrieval
    merged,       \* list returned by self.retriever.get_relevant_documents
    docs,         \* list returned by retrieval_and_rerank
    chainCalls,   \* qa_chain invocations made by the latest run/arun
    chainArgs,    \* arguments of the latest qa_chain invocation
    answer,       \* string returned by the latest run/arun
    outcome,      \* what the latest qa_chain invocation did
    loopBusy,     \* the event-loop thread is executing a coroutine
    ticks         \* steps another event-loop task took since the call began

vars == <<args, constructed, initLog, params, knowledge, op, fault, pc,
          question, results, merged, docs, chainCalls, chainArgs, answer,
          outcome, loopBusy, ticks>>

(* ---------------------------- documents ------------------------------- *)
Sources == {"a.pdf", "b.pdf"}

\* Python orders the source strings lexicographically: "a.pdf" < "b.pdf".
SourceRank(s) == IF s = "a.pdf" THEN 1 ELSE 2

Indexes == {1, 2}

\* A retrieved chunk: metadata source and chunk_index, and the length of its
\* page_content.  Two strategies may hold copies of one (source, chunk_index)
\* with different text.
Chunks == [source : Sources, chunk_index : Indexes, len : 0..MaxChunkLen]

SeqsUpTo(S, n) == UNION {[1..k -> S] : k \in 0..n}

Key(d) == <<d.source, d.chunk_index>>

\* Python tuple comparison of (source, chunk_index)
KeyLess(a, b) ==
    \/ SourceRank(a.source) < SourceRank(b.source)
    \/ a.source = b.source /\ a.chunk_index < b.chunk_index

BagOfSeq(s) == [x \in {s[i] : i \in 1..Len(s)} |->
                   Cardinality({i \in 1..Len(s) : s[i] = x})]

RECURSIVE SumLen(_)
SumLen(s) == IF s = <<>> THEN 0 ELSE s[1].len + SumLen(Tail(s))

(* ---------------------------- configuration --------------------------- *)
EmptyDict == [k \in {} |-> FALSE]

DictGet(d, k, default) == IF k \in DOMAIN d THEN d[k] ELSE default

\* dict.pop(k) on a dict that holds k
DictPop(d, k) == [x \in DOMAIN d \ {k} |-> d[x]]

LoaderConfig ==
    [k \in {"type", "kwargs"} |->
        IF k = "type" THEN "ElemUnstructuredLoader" ELSE "unstructured_api_url"]

PostRetrievalConfigs ==
    {EmptyDict} \cup {[k \in {"sort_by_source_and_index"} |-> b] : b \in BOOLEAN}

\* what yaml.safe_load can return for the sections the tool reads
Configs == [loader : {LoaderConfig},
            max_content : 0..MaxContent,
            post_retrieval : PostRetrievalConfigs]

NoParams == [loader |-> EmptyDict, max_content |-> 0, post_retrieval |-> EmptyDict]

(* ---------------------------- retrieval_and_rerank -------------------- *)
\* variant of TruncateLoop that stops as soon as the sum reaches max_content
RECURSIVE TruncateLoopInclusive(_, _, _, _)
TruncateLoopInclusive(D, M, i, sum) ==
    IF i > Len(D) THEN i - 1
    ELSE LET s == sum + D[i].len
         IN  IF s >= M THEN i - 1 ELSE TruncateLoopInclusive(D, M, i + 1, s)

\* the walk of lines 200-205 from position i with doc_content_sum = sum;
\* the value is doc_num
RECURSIVE TruncateLoop(_, _, _, _)
TruncateLoop(D, M, i, sum) ==
    IF i > Len(D) THEN i - 1
    ELSE LET s == sum + D[i].len
         IN  IF s > M THEN i - 1 ELSE TruncateLoop(D, M, i + 1, s)

Truncate(D, M) == SubSeq(D, 1, TruncateLoop(D, M, 1, 0))

\* variant of InsertDoc that puts d in front of the elements with its key
InsertDocBeforeEqual(S, d) ==
    LET n == Cardinality({i \in 1..Len(S) : KeyLess(S[i], d)})
    IN  SubSeq(S, 1, n) \o <<d>> \o SubSeq(S, n + 1, Len(S))

\* one insertion of a stable sort: d goes after every element whose key is
\* not greater than its own
InsertDoc(S, d) ==
    LET n == Cardinality({i \in 1..Len(S) : ~KeyLess(d, S[i])})
    IN  SubSeq(S, 1, n) \o <<d>> \o SubSeq(S, n + 1, Len(S))

\* sorted(docs, key=lambda x: (x.metadata['source'], x.metadata['chunk_index']))
RECURSIVE SortDocs(_)
SortDocs(D) ==
    IF D = <<>> THEN <<>>
    ELSE InsertDoc(SortDocs(SubSeq(D, 1, Len(D) - 1)), D[Len(D)])

SortEnabled(p) == DictGet(p.post_retrieval, "sort_by_source_and_index", FALSE)

\* variant of RerankDocs that sorts the whole list before truncating
RerankDocsSortFirst(D, p) ==
    IF SortEnabled(p) THEN Truncate(SortDocs(D), p.max_content)
    ELSE Truncate(D, p.max_content)

\* lines 199-213: truncate to max_content, then sort when configured
RerankDocs(D, p) ==
    LET kept == Truncate(D, p.max_content)
    IN  IF SortEnabled(p) THEN SortDocs(kept) ELSE kept

(* ---------------------------- ensemble retriever ---------------------- *)
\* outcome of one strategy, or of the whole retrieval: a list, or a failure
Failed == [ok |-> FALSE, docs |-> <<>>]
Found(D) == [ok |-> TRUE, docs |-> D]

\* the copy of a chunk that strategy s holds
CopyLen(s) == s % (MaxChunkLen + 1)
StrategyChunks(s) == {c \in Chunks : c.len = CopyLen(s)}

StrategyOutcomes(s, n) == {Failed} \cup {Found(D) : D \in SeqsUpTo(StrategyChunks(s), n)}

\* every assignment of an outcome to each of the first k registered strategies
RECURSIVE ResultsUpTo(_, _)
ResultsUpTo(k, n) ==
    IF k = 0 THEN {<<>>}
    ELSE {Append(r, o) : r \in ResultsUpTo(k - 1, n), o \in StrategyOutcomes(k, n)}

RankedResults == ResultsUpTo(NumStrategies, MaxRank)

\* the outcomes in which every strategy either fails or finds the first chunk
\* of a.pdf
FirstChunkResults ==
    {r \in ResultsUpTo(NumStrategies, 1) :
        \A s \in 1..NumStrategies :
            r[s].ok => /\ Len(r[s].docs) = 1
                       /\ r[s].docs[1].source = "a.pdf"
                       /\ r[s].docs[1].chunk_index = 1}

\* whether one failing strategy is tolerated; the constructor passes no
\* policy, so the default applies
PartialFailureTolerance == TRUE

\* lists of the strategies that answered, in registration order from s on
RECURSIVE ConcatFrom(_, _)
ConcatFrom(res, s) ==
    IF s > Len(res) THEN <<>>
    ELSE (IF res[s].ok THEN res[s].docs ELSE <<>>) \o ConcatFrom(res, s + 1)

\* variant of DedupLoop in which a later copy replaces the earlier one
RECURSIVE DedupLoopLastWins(_, _, _)
DedupLoopLastWins(C, i, out) ==
    IF i > Len(C) THEN out
    ELSE IF \E j \in 1..Len(out) : Key(out[j]) = Key(C[i])
         THEN DedupLoopLastWins(C, i + 1,
                  [j \in 1..Len(out) |->
                      IF Key(out[j]) = Key(C[i]) THEN C[i] ELSE out[j]])
         ELSE DedupLoopLastWins(C, i + 1, Append(out, C[i]))

\* keep the first occurrence of every (source, chunk_index)
RECURSIVE DedupLoop(_, _, _)
DedupLoop(C, i, out) ==
    IF i > Len(C) THEN out
    ELSE IF \E j \in 1..Len(out) : Key(out[j]) = Key(C[i])
         THEN DedupLoop(C, i + 1, out)
         ELSE DedupLoop(C, i + 1, Append(out, C[i]))

\* variant of EnsembleRetrieve that fails as soon as one strategy fails
EnsembleRetrieveStrict(res) ==
    IF \E s \in 1..Len(res) : ~res[s].ok THEN Failed
    ELSE Found(DedupLoop(ConcatFrom(res, 1), 1, <<>>))

\* self.retriever.get_relevant_documents(query, collection_name)
EnsembleRetrieve(res) ==
    LET failing == {s \in 1..Len(res) : ~res[s].ok}
    IN  IF \/ failing = 1..Len(res)
           \/ ~PartialFailureTolerance /\ failing # {}
        THEN Failed
        ELSE Found(DedupLoop(ConcatFrom(res, 1), 1, <<>>))

(* ---------------------------- constructor ----------------------------- *)
Given == "given"
None == "None"

CtorArgs == [vector_store : {None, Given}, keyword_store : {None, Given},
             llm : {None, Given}, collection_name : {None, Given}]

\* the condition of line 44
CollectionNameMissing(a) ==
    a.collection_name = None /\ (a.keyword_store = None \/ a.vector_store = None)

Provision(name, v) ==
    [step |-> name, how |-> IF v = Given THEN "given" ELSE "created"]

\* the steps of lines 48-124, in order
InitSteps(a) ==
    <<[step |-> "load_config", how |-> "created"],
      Provision("vector_store", a.vector_store),
      Provision("keyword_store", a.keyword_store),
      Provision("llm", a.llm),
      [step |-> "retriever", how |-> "created"],
      [step |-> "qa_chain", how |-> "created"]>>

\* variant of ConstructResult that loads the configuration before the check
ConstructResultLoadFirst(a, cfg) ==
    IF CollectionNameMissing(a)
    THEN [ok |-> FALSE, fault |-> "ValueError", log |-> <<[step |-> "load_config", how |-> "created"]>>,
          params |-> cfg]
    ELSE [ok |-> TRUE, fault |-> "none", log |-> InitSteps(a), params |-> cfg]

\* __init__ with arguments a when the configuration file holds cfg
ConstructResult(a, cfg) ==
    IF CollectionNameMissing(a)
    THEN [ok |-> FALSE, fault |-> "ValueError", log |-> <<>>, params |-> NoParams]
    ELSE [ok |-> TRUE, fault |-> "none", log |-> InitSteps(a), params |-> cfg]

(* ---------------------------- run ------------------------------------- *)
Queries == {"q1", "q2"}
NoAnswer == "<no answer>"
NoChainArgs == [input_documents |-> <<>>, question |-> "<none>"]

Errors == {[type |-> "TimeoutError", msg |-> "request timed out"],
           [type |-> "ValueError", msg |-> "bad response"]}
NoError == [type |-> "none", msg |-> ""]

\* str(e)
Str(e) == e.msg

NoOutcome == [raised |-> FALSE, output_text |-> NoAnswer, err |-> NoError]

\* what the qa_chain call can do: return output_text or raise
ChainOutcomes ==
    {[raised |-> FALSE, output_text |-> "generated answer", err |-> NoError]}
    \cup {[raised |-> TRUE, output_text |-> "", err |-> e] : e \in Errors}

\* variant of RunStart that turns a retrieval failure into an answer string
RunStartAbsorbing(r, q, p) ==
    IF ~r.ok
    THEN [pc |-> "idle", fault |-> "none", merged |-> <<>>, docs |-> <<>>,
          chainCalls |-> 0, chainArgs |-> NoChainArgs, answer |-> "retrieval failed"]
    ELSE LET d == RerankDocs(r.docs, p)
         IN  [pc |-> "synth", fault |-> "none", merged |-> r.docs, docs |-> d,
              chainCalls |-> 1,
              chainArgs |-> [input_documents |-> d, question |-> q],
              answer |-> NoAnswer]

\* run up to the qa_chain call (lines 216-218), r being what the retriever did
RunStart(r, q, p) ==
    IF ~r.ok
    THEN [pc |-> "idle", fault |-> "RetrievalError", merged |-> <<>>, docs |-> <<>>,
          chainCalls |-> 0, chainArgs |-> NoChainArgs, answer |-> NoAnswer]
    ELSE LET d == RerankDocs(r.docs, p)
         IN  [pc |-> "synth", fault |-> "none", merged |-> r.docs, docs |-> d,
              chainCalls |-> 1,
              chainArgs |-> [input_documents |-> d, question |-> q],
              answer |-> NoAnswer]

\* variant of RunFinish without the except clause
RunFinishPropagating(o) ==
    IF o.raised THEN [answer |-> NoAnswer, fault |-> o.err.type]
    ELSE [answer |-> o.output_text, fault |-> "none"]

\* run from the return of the qa_chain call (lines 218-223)
RunFinish(o) ==
    IF o.raised THEN [answer |-> Str(o.err), fault |-> "none"]
    ELSE [answer |-> o.output_text, fault |-> "none"]

(* ---------------------------- file2knowledge -------------------------- *)
Files == {"f1.pdf"}

\* file2knowledge on configuration p when the loader returns ndocs documents
File2KnowledgeResult(p, ndocs) ==
    IF "type" \notin DOMAIN p.loader
    THEN [fault |-> "KeyError", params |-> p, stored |-> FALSE]
    ELSE IF ndocs = 0
         THEN [fault |-> "IndexError",
               params |-> [p EXCEPT !.loader = DictPop(@, "type")], stored |-> FALSE]
         ELSE [fault |-> "none",
               params |-> [p EXCEPT !.loader = DictPop(@, "type")], stored |-> TRUE]

(* ---------------------------- actions --------------------------------- *)
NoCall ==
    /\ question = "<none>"
    /\ results = <<>>
    /\ merged = <<>>
    /\ docs = <<>>
    /\ chainCalls = 0
    /\ chainArgs = NoChainArgs
    /\ answer = NoAnswer
    /\ outcome = NoOutcome
    /\ loopBusy = FALSE
    /\ ticks = 0

\* a new operation begins: the record of the latest call is cleared
ForgetCall ==
    /\ question' = "<none>"
    /\ results' = <<>>
    /\ merged' = <<>>
    /\ docs' = <<>>
    /\ chainCalls' = 0
    /\ chainArgs' = NoChainArgs
    /\ answer' = NoAnswer
    /\ outcome' = NoOutcome
    /\ loopBusy' = FALSE
    /\ ticks' = 0

Init ==
    /\ args = [vector_store |-> None, keyword_store |-> None,
               llm |-> None, collection_name |-> None]
    /\ constructed = FALSE
    /\ initLog = <<>>
    /\ params = NoParams
    /\ knowledge = {}
    /\ op = "none"
    /\ fault = "none"
    /\ pc = "idle"
    /\ NoCall

\* BishengRAGTool(**a)
Construct(a, cfg) ==
    /\ ~constructed
    /\ pc = "idle"
    /\ LET r == ConstructResult(a, cfg)
       IN  /\ constructed' = r.ok
           /\ fault' = r.fault
           /\ initLog' = r.log
           /\ params' = r.params
    /\ args' = a
    /\ op' = "init"
    /\ UNCHANGED <<knowledge, pc, question, results, merged, docs, chainCalls,
                   chainArgs, answer, outcome, loopBusy, ticks>>

\* the configuration files whose max_content admits every list of first chunks
RoomyConfigs == {cfg \in Configs : cfg.max_content = MaxContent}

DoConstruct == \E a \in CtorArgs : \E cfg \in RoomyConfigs : Construct(a, cfg)

\* tool.file2knowledge(file, drop_old)
File2Knowledge(file, drop_old, ndocs) ==
    /\ constructed
    /\ pc = "idle"
    /\ LET r == File2KnowledgeResult(params, ndocs)
       IN  /\ fault' = r.fault
           /\ params' = r.params
           /\ knowledge' = IF ~r.stored THEN knowledge
                           ELSE IF drop_old THEN {file}
                           ELSE knowledge \cup {file}
    /\ op' = "file2knowledge"
    /\ ForgetCall
    /\ UNCHANGED <<args, constructed, initLog, pc>>

DoFile2Knowledge ==
    \E file \in Files : \E drop_old \in BOOLEAN : \E ndocs \in 0..1 :
        File2Knowledge(file, drop_old, ndocs)

\* tool.run(q) or tool.arun(q) up to the qa_chain call; res is what the
\* strategies do for this query.  arun is a coroutine without an await: it
\* occupies the event-loop thread from its first step to its return.
CallRun(m, q, res) ==
    /\ constructed
    /\ pc = "idle"
    /\ LET r == RunStart(EnsembleRetrieve(res), q, params)
       IN  /\ pc' = r.pc
           /\ fault' = r.fault
           /\ merged' = r.merged
           /\ docs' = r.docs
           /\ chainCalls' = r.chainCalls
           /\ chainArgs' = r.chainArgs
           /\ answer' = r.answer
           /\ loopBusy' = (m = "arun" /\ r.pc = "synth")
    /\ op' = m
    /\ question' = q
    /\ results' = res
    /\ outcome' = NoOutcome
    /\ ticks' = 0
    /\ UNCHANGED <<args, constructed, initLog, params, knowledge>>

\* the qa_chain call returns or raises, and run returns
ChainCompletes(o) ==
    /\ pc = "synth"
    /\ LET r == RunFinish(o)
       IN  /\ answer' = r.answer
           /\ fault' = r.fault
    /\ outcome' = o
    /\ pc' = "idle"
    /\ loopBusy' = FALSE
    /\ UNCHANGED <<args, constructed, initLog, params, knowledge, op, question,
                   results, merged, docs, chainCalls, chainArgs, ticks>>

DoChainCompletes == \E o \in ChainOutcomes : ChainCompletes(o)

\* another task of the caller's event loop takes a step
OtherTaskStep ==
    /\ op \in {"run", "arun"}
    /\ ~loopBusy
    /\ ticks < MaxTicks
    /\ ticks' = ticks + 1
    /\ UNCHANGED <<args, constructed, initLog, params, knowledge, op, fault, pc,
                   question, results, merged, docs, chainCalls, chainArgs,
                   answer, outcome, loopBusy>>

(* ---------------------------- the tool's life ------------------------- *)
DoCall ==
    \E m \in {"run", "arun"} : \E q \in Queries : \E res \in FirstChunkResults :
        CallRun(m, q, res)

Next ==
    \/ DoConstruct
    \/ DoFile2Knowledge
    \/ DoCall
    \/ DoChainCompletes
    \/ OtherTaskStep

Spec == Init /\ [][Next]_vars

(* ---------------------------- one query ------------------------------- *)
AllGiven == [vector_store |-> Given, keyword_store |-> Given,
             llm |-> Given, collection_name |-> Given]

\* a tool as the constructor leaves it
InitConstructed ==
    /\ args = AllGiven
    /\ constructed = ConstructResult(AllGiven, NoParams).ok
    /\ initLog = ConstructResult(AllGiven, NoParams).log
    /\ params \in {ConstructResult(AllGiven, cfg).params : cfg \in Configs}
    /\ knowledge = {}
    /\ op = "init"
    /\ fault = "none"
    /\ pc = "idle"
    /\ NoCall

InitRoomy ==
    /\ InitConstructed
    /\ params \in RoomyConfigs

\* one query per behaviour
DoQuery ==
    /\ op = "init"
    /\ \E res \in RankedResults : CallRun("run", "q1", res)

NextRetrieve ==
    \/ DoQuery
    \/ DoChainCompletes

SpecRetrieve == InitRoomy /\ [][NextRetrieve]_vars

(* ---------------------------- the selector alone ---------------------- *)
\* retrieval_and_rerank when the retriever returns D
RetrievalAndRerank(D) ==
    /\ constructed
    /\ merged' = D
    /\ docs' = RerankDocs(D, params)
    /\ op' = "retrieval_and_rerank"
    /\ UNCHANGED <<args, constructed, initLog, params, knowledge, fault, pc,
                   question, results, chainCalls, chainArgs, answer, outcome,
                   loopBusy, ticks>>

\* one call per behaviour
DoRetrievalAndRerank ==
    /\ op = "init"
    /\ \E D \in SeqsUpTo(Chunks, MaxDocs) : RetrievalAndRerank(D)

NextSelect == DoRetrievalAndRerank

SpecSelect == InitConstructed /\ [][NextSelect]_vars

(* ---------------------------- properties ------------------------------ *)
Selected == op = "retrieval_and_rerank"

\* the prefix of the merged list that has as many elements as the result
KeptPrefix == SubSeq(merged, 1, Len(docs))

\* C1: the chunks retrieval_and_rerank keeps are the longest prefix of the
\* merged list whose page_content lengths sum to at most max_content: whole
\* chunks only, the sum never above max_content, and the next chunk of the
\* merged list, if there is one, would take the sum above it.
TruncationKeepsLongestPrefix ==
    Selected =>
        /\ Len(docs) <= Len(merged)
        /\ BagOfSeq(docs) = BagOfSeq(KeptPrefix)
        /\ SumLen(KeptPrefix) <= params.max_content
        /\ Len(docs) < Len(merged) =>
               SumLen(KeptPrefix) + merged[Len(docs) + 1].len > params.max_content
        /\ (merged # <<>> /\ merged[1].len > params.max_content) => docs = <<>>

\* a prefix that fills max_content exactly is kept and the next chunk dropped
WitnessExactBudget ==
    /\ Selected
    /\ docs # <<>>
    /\ Len(docs) < Len(merged)
    /\ SumLen(docs) = params.max_content

WithSort(p, b) ==
    [p EXCEPT !.post_retrieval = [k \in {"sort_by_source_and_index"} |-> b]]

\* C3: with the same merged list and max_content, the result holds the same
\* multiset of chunks whether sort_by_source_and_index is on or off.
SortKeepsSameChunks ==
    Selected =>
        BagOfSeq(docs) = BagOfSeq(RerankDocs(merged, WithSort(params, ~SortEnabled(params))))

\* the sort is on, it reordered the prefix, and truncation dropped a chunk
WitnessSortReorders ==
    /\ Selected
    /\ SortEnabled(params)
    /\ docs # KeptPrefix
    /\ Len(docs) < Len(merged)

KeysOf(D) == {Key(D[i]) : i \in 1..Len(D)}

WithKey(D, k) == SelectSeq(D, LAMBDA d : Key(d) = k)

\* C4: with sort_by_source_and_index on, the result is the kept prefix in
\* ascending (source, chunk_index) order and chunks of equal key keep the
\* order they had in the prefix; with it off the result is the prefix as
\* merged.
SortIsStableAscending ==
    Selected =>
        IF SortEnabled(params)
        THEN /\ \A i, j \in 1..Len(docs) : i < j => ~KeyLess(docs[j], docs[i])
             /\ \A k \in KeysOf(KeptPrefix) \cup KeysOf(docs) :
                    WithKey(docs, k) = WithKey(KeptPrefix, k)
        ELSE docs = KeptPrefix

\* two different copies of one key were kept and an earlier chunk moved
WitnessStableSort ==
    /\ Selected
    /\ SortEnabled(params)
    /\ docs # KeptPrefix
    /\ \E i, j \in 1..Len(docs) : i < j /\ Key(docs[i]) = Key(docs[j]) /\ docs[i] # docs[j]

Called == op \in {"run", "arun"}

Failing == {s \in 1..Len(results) : ~results[s].ok}

\* positions of the first occurrence of each key
FirstIdx(C) == {i \in 1..Len(C) : \A j \in 1..(i - 1) : Key(C[j]) # Key(C[i])}

IsFirstOccurrences(m, C) ==
    /\ Len(m) = Cardinality(FirstIdx(C))
    /\ \A i \in FirstIdx(C) : m[Cardinality({j \in FirstIdx(C) : j <= i})] = C[i]

RunAbsorbsChainFailure ==
    /\ chainCalls <= 1
    /\ (Called /\ chainCalls = 1) =>
           chainArgs = [input_documents |-> docs, question |-> question]
    /\ (Called /\ chainCalls = 1 /\ pc = "idle") =>
           /\ fault = "none"
           /\ answer = IF outcome.raised THEN outcome.err.msg ELSE outcome.output_text

\* the chain raised on a query that had documents selected
WitnessChainRaised ==
    /\ Called
    /\ pc = "idle"
    /\ chainCalls = 1
    /\ outcome.raised
    /\ docs # <<>>

\* C6: when every strategy fails, run raises the retrieval failure to its
\* caller instead of returning an answer string, and the qa_chain is not
\* invoked for that query.
RetrievalFailurePropagates ==
    (Called /\ Failing = 1..NumStrategies) =>
        /\ fault = "RetrievalError"
        /\ answer = NoAnswer
        /\ chainCalls = 0
        /\ pc = "idle"

WitnessRetrievalFailed ==
    /\ Called
    /\ Failing = 1..NumStrategies
    /\ fault = "RetrievalError"

\* C7: with two or more strategies, a query on which exactly one strategy
\* fails gets the merged result of the remaining ones and goes on to
\* truncation and synthesis; retrieval fails only when all strategies fail.
OneFailureIsTolerated ==
    Called =>
        /\ fault = "RetrievalError" <=> Failing = 1..NumStrategies
        /\ (NumStrategies >= 2 /\ Cardinality(Failing) = 1) =>
               /\ IsFirstOccurrences(merged, ConcatFrom(results, 1))
               /\ chainCalls = 1
               /\ chainArgs.input_documents = docs

\* one strategy failed and the chain was called with documents of the others
WitnessOneStrategyFailed ==
    /\ Called
    /\ Cardinality(Failing) = 1
    /\ pc = "synth"
    /\ docs # <<>>

\* C8: while the qa_chain call made for arun is in flight, another task of
\* the caller's event loop can take a step.
ArunYieldsWhileSynthesizing ==
    (op = "arun" /\ pc = "synth" /\ ticks < MaxTicks) => ENABLED OtherTaskStep

BadArgs ==
    args.collection_name = None
        /\ ~(args.vector_store = Given /\ args.keyword_store = Given)

\* C9: a constructor call without collection_name and without both stores
\* raises before anything else happens: no configuration loaded, nothing
\* created, no instance; every other argument combination passes the check.
ConstructorChecksCollectionFirst ==
    op # "none" =>
        /\ BadArgs => /\ ~constructed
                      /\ fault = "ValueError"
                      /\ initLog = <<>>
                      /\ params = NoParams
        /\ ~BadArgs => /\ constructed
                       /\ Len(initLog) > 0

\* one store was given, and the constructor still refused
WitnessConstructorRefused ==
    /\ op = "init"
    /\ fault = "ValueError"
    /\ args.vector_store = Given
    /\ args.keyword_store = None

\* C10: file2knowledge leaves self.params as the constructor loaded it, and a
\* later file2knowledge call does not fail for a configuration reason.
File2KnowledgeLeavesConfig ==
    constructed => /\ params.loader = LoaderConfig
                   /\ fault # "KeyError"

====
